---------------------------- MODULE Spec2Model ----------------------------
(***************************************************************************)
(* Model of src/providers/registry.rs: the provider registry               *)
(* (ProviderRegistry::from_configs and its lookups) and the credential     *)
(* resolver (resolve_api_key, load_api_key_from_file, expand_home,         *)
(* extract_api_key_from_json).                                             *)
(*                                                                         *)
(* Three specifications share the variables:                               *)
(*   Spec        from_configs run entry by entry on a config list, then    *)
(*               the read-only lookups on the registry it returned;        *)
(*   SpecLookup  get_provider_for_model / get_provider on registry values  *)
(*               drawn from a bounded set (both maps populated);           *)
(*   SpecJson    extract_api_key_from_json / load_api_key_from_file on     *)
(*               JSON documents drawn from a bounded set.                  *)
(*                                                                         *)
(* Strings that the code trims are sequences of one-character strings.     *)
(* Option<T> is [some |-> FALSE] or [some |-> TRUE, v |-> x]; Result<T, E> *)
(* is [ok |-> TRUE, v |-> x] or [ok |-> FALSE, e |-> err].                 *)
(***************************************************************************)
EXTENDS Integers, Sequences, FiniteSets, TLC

VARIABLES
    configs,            \* &[ProviderConfig]: the argument of from_configs
    home,               \* what dirs::home_dir() returns in this process
    preserve_order,     \* whether serde_json is built with "preserve_order"
    pc,                 \* position of the run: "build", "serving", "failed", ...
    idx,                \* index of the config entry the for loop takes next
    providers,          \* registry.providers: name -> adapter
    model_to_provider,  \* registry.model_to_provider: model -> name
    result,             \* what from_configs returned (None while it runs)
    resolved,           \* indices whose credential resolution has started
    constructed,        \* indices whose adapter has been constructed
    reads,              \* the calls of fs::read_to_string, in order: entry and path
    last,               \* the last lookup call and what it returned
    doc                 \* SpecJson: the JSON document under test

vars == <<configs, home, preserve_order, pc, idx, providers, model_to_provider,
          result, resolved, constructed, reads, last, doc>>

----------------------------------------------------------------------------
(* Option and Result *)

None == [some |-> FALSE]

Some(x) == [some |-> TRUE, v |-> x]

Ok(x) == [ok |-> TRUE, v |-> x]

Err(e) == [ok |-> FALSE, e |-> e]

----------------------------------------------------------------------------
(* Strings: str::trim and str::is_empty *)

IsWhitespace(c) == c \in {" ", "\n", "\t"}

RECURSIVE TrimStart(_)
TrimStart(s) ==
    IF Len(s) > 0 /\ IsWhitespace(Head(s)) THEN TrimStart(Tail(s)) ELSE s

RECURSIVE TrimEnd(_)
TrimEnd(s) ==
    IF Len(s) > 0 /\ IsWhitespace(s[Len(s)])
    THEN TrimEnd(SubSeq(s, 1, Len(s) - 1))
    ELSE s

Trim(s) == TrimEnd(TrimStart(s))

IsEmpty(s) == Len(s) = 0

IsBlank(s) == IsEmpty(Trim(s))

----------------------------------------------------------------------------
(* JSON.  A document is its syntax tree in document order:                 *)
(*   [t |-> "string", s |-> chars]        [t |-> "scalar"]                 *)
(*   [t |-> "object", members |-> <<[key |-> k, value |-> d], ...>>]       *)
(*   [t |-> "array", items |-> <<d, ...>>]                                 *)
(* serde_json::from_str turns it into a Value of the same shape whose      *)
(* object members are the entries of serde_json::Map in iteration order:   *)
(* a BTreeMap (sorted by key) in the default build, an IndexMap (insertion *)
(* order) when the crate feature "preserve_order" is on.  Inserting a key  *)
(* that is present replaces its value and keeps its place.                 *)

JString(s) == [t |-> "string", s |-> s]

JScalar == [t |-> "scalar"]

JObject(members) == [t |-> "object", members |-> members]

JArray(items) == [t |-> "array", items |-> items]

Member(k, d) == [key |-> k, value |-> d]

\* The keys of the documents, in String's (bytewise) order.
KeyOrder ==
    <<"a", "access_token", "api_key", "b", "bearer_token", "inner", "key",
      "oauth_token", "outer", "token">>

KeyRank(k) == CHOOSE i \in 1..Len(KeyOrder) : KeyOrder[i] = k

HasKey(entries, k) == \E i \in 1..Len(entries) : entries[i].key = k

\* IndexMap::insert
InsertOrdered(entries, k, v) ==
    IF HasKey(entries, k)
    THEN [i \in 1..Len(entries) |->
            IF entries[i].key = k THEN Member(k, v) ELSE entries[i]]
    ELSE Append(entries, Member(k, v))

\* BTreeMap::insert
InsertSorted(entries, k, v) ==
    IF HasKey(entries, k)
    THEN [i \in 1..Len(entries) |->
            IF entries[i].key = k THEN Member(k, v) ELSE entries[i]]
    ELSE LET below == SelectSeq(entries, LAMBDA e : KeyRank(e.key) < KeyRank(k))
             above == SelectSeq(entries, LAMBDA e : KeyRank(e.key) > KeyRank(k))
         IN  below \o <<Member(k, v)>> \o above

MapInsert(entries, k, v, preserve) ==
    IF preserve THEN InsertOrdered(entries, k, v) ELSE InsertSorted(entries, k, v)

RECURSIVE ParseJson(_, _)
RECURSIVE ParseMembers(_, _, _)
\* The members of an object, inserted one by one in document order.
ParseMembers(members, acc, preserve) ==
    IF members = <<>> THEN acc
    ELSE ParseMembers(Tail(members),
                      MapInsert(acc, Head(members).key,
                                ParseJson(Head(members).value, preserve), preserve),
                      preserve)

\* serde_json::from_str on a well-formed document
ParseJson(d, preserve) ==
    CASE d.t = "object" -> JObject(ParseMembers(d.members, <<>>, preserve))
      [] d.t = "array" ->
            JArray([i \in 1..Len(d.items) |-> ParseJson(d.items[i], preserve)])
      [] OTHER -> d

TOKEN_KEYS ==
    <<"api_key", "token", "access_token", "key", "oauth_token", "bearer_token">>

\* map.get(key)
MapGet(entries, k) ==
    IF HasKey(entries, k)
    THEN Some((CHOOSE e \in {entries[i] : i \in 1..Len(entries)} : e.key = k).value)
    ELSE None

\* map.get(key).and_then(|v| v.as_str()), trimmed, when that is not empty
KeyMatch(entries, k) ==
    LET got == MapGet(entries, k)
    IN  IF got.some /\ got.v.t = "string" /\ ~IsEmpty(Trim(got.v.s))
        THEN Some(Trim(got.v.s))
        ELSE None

\* The first Some of a sequence of Options (find_map, or a for loop that returns).
RECURSIVE FirstSome(_)
FirstSome(opts) ==
    IF opts = <<>> THEN None
    ELSE IF Head(opts).some THEN Head(opts) ELSE FirstSome(Tail(opts))

KeyMatches(entries) == [i \in 1..Len(TOKEN_KEYS) |-> KeyMatch(entries, TOKEN_KEYS[i])]

\* A plausible slip: the nested values are searched before the node's own keys.
RECURSIVE search_children_first(_)
search_children_first(value) ==
    CASE value.t = "object" ->
            LET nested == FirstSome([i \in 1..Len(value.members) |->
                                        search_children_first(value.members[i].value)])
            IN  IF nested.some THEN nested ELSE FirstSome(KeyMatches(value.members))
      [] value.t = "array" ->
            FirstSome([i \in 1..Len(value.items) |-> search_children_first(value.items[i])])
      [] OTHER -> None

\* fn search inside extract_api_key_from_json
RECURSIVE search(_)
search(value) ==
    CASE value.t = "object" ->
            LET own == FirstSome(KeyMatches(value.members))
            IN  IF own.some THEN own
                ELSE FirstSome([i \in 1..Len(value.members) |->
                                   search(value.members[i].value)])
      [] value.t = "array" ->
            FirstSome([i \in 1..Len(value.items) |-> search(value.items[i])])
      [] OTHER -> None

extract_api_key_from_json(value) == search(value)

----------------------------------------------------------------------------
(* The file system and the credential files.  A path is a sequence of      *)
(* components, "~/" first when it is home-relative.  The text of a file is *)
(* a sequence of characters in which a whole brace-delimited chunk is one  *)
(* element: "{auth}", "{nokey}" and "{doc}" are well-formed JSON objects   *)
(* (DocumentOf gives their syntax trees), "{" is text that starts with a   *)
(* brace and is not JSON.                                                  *)

HomeDir == <<"/home/u/">>

PlainPath == <<"/keys/", "plain">>

BlankPath == <<"/keys/", "blank">>

AuthJsonPath == <<"/keys/", "auth.json">>

NoKeyJsonPath == <<"/keys/", "nokey.json">>

BadJsonPath == <<"/keys/", "bad.json">>

MissingPath == <<"/keys/", "missing">>

DocJsonPath == <<"/keys/", "doc.json">>

TildePath == <<"~/", "key">>

\* {"b": {"token": "tb"}, "a": {"access_token": " ta "}}
AuthDocument ==
    JObject(<<Member("b", JObject(<<Member("token", JString(<<"t", "b">>))>>)),
              Member("a", JObject(<<Member("access_token",
                                           JString(<<" ", "t", "a", " ">>))>>))>>)

\* {"api_key": "", "token": " ", "key": 7}
NoKeyDocument ==
    JObject(<<Member("api_key", JString(<<>>)), Member("token", JString(<<" ">>)),
              Member("key", JScalar)>>)

DocumentOf(chunk) ==
    CASE chunk = "{auth}" -> Some(AuthDocument)
      [] chunk = "{nokey}" -> Some(NoKeyDocument)
      [] chunk = "{doc}" -> Some(doc)
      [] OTHER -> None

StartsWithBrace(text) ==
    Len(text) > 0 /\ Head(text) \in {"{auth}", "{nokey}", "{doc}", "{"}

\* fs::read_to_string
ReadToString(path) ==
    CASE path = PlainPath -> Ok(<<" ", "s", "k", "\n">>)
      [] path = BlankPath -> Ok(<<" ", "\n">>)
      [] path = AuthJsonPath -> Ok(<<"\n", "{auth}", "\n">>)
      [] path = NoKeyJsonPath -> Ok(<<"{nokey}">>)
      [] path = BadJsonPath -> Ok(<<"{", "x">>)
      [] path = DocJsonPath -> Ok(<<" ", "{doc}", "\n">>)
      [] path = HomeDir \o <<"key">> -> Ok(<<"h", "k">>)
      [] OTHER -> Err([kind |-> "io::Error"])

\* serde_json::from_str on the trimmed text of a file
FromStr(text, preserve) ==
    IF Len(text) = 1 /\ DocumentOf(text[1]).some
    THEN Ok(ParseJson(DocumentOf(text[1]).v, preserve))
    ELSE Err([kind |-> "serde_json::Error"])

----------------------------------------------------------------------------
(* ProviderError.  A ConfigError keeps its format string and the values    *)
(* formatted into it, each under the name of what it is.                   *)

ConfigError(fmt, args) == [kind |-> "ConfigError", fmt |-> fmt] @@ args

ModelNotSupported(model) == [kind |-> "ModelNotSupported", model |-> model]

----------------------------------------------------------------------------
(* Credential resolver.  The operators that may read a file return         *)
(* [ret |-> the Result, reads |-> the paths handed to fs::read_to_string]. *)

expand_home(path, homedir) ==
    IF Len(path) > 0 /\ Head(path) = "~/"
    THEN IF homedir.some THEN Some(homedir.v \o Tail(path)) ELSE None
    ELSE Some(path)

load_api_key_from_file(path_str, homedir, preserve) ==
    LET path == expand_home(path_str, homedir)
    IN  IF ~path.some
        THEN [ret |-> Err(ConfigError("Invalid api_key_path: {}",
                                      [path |-> path_str])),
              reads |-> <<>>]
        ELSE
        LET content == ReadToString(path.v)
        IN  IF ~content.ok
            THEN [ret |-> Err(ConfigError("Failed to read {}: {}",
                                          [path |-> path.v, cause |-> content.e])),
                  reads |-> <<path.v>>]
            ELSE
            LET trimmed == Trim(content.v)
            IN  IF StartsWithBrace(trimmed)
                THEN LET value == FromStr(trimmed, preserve)
                     IN  IF ~value.ok
                         THEN [ret |-> Err(ConfigError(
                                        "Failed to parse JSON from {}: {}",
                                        [path |-> path.v, cause |-> value.e])),
                               reads |-> <<path.v>>]
                         ELSE
                         LET found == extract_api_key_from_json(value.v)
                         IN  IF found.some
                             THEN [ret |-> Ok(found.v), reads |-> <<path.v>>]
                             ELSE [ret |-> Err(ConfigError(
                                        "No api_key/access_token/token field found in {}",
                                        [path |-> path.v])),
                                   reads |-> <<path.v>>]
                ELSE [ret |-> Ok(trimmed), reads |-> <<path.v>>]

\* A plausible slip: the file's error is returned as it is, without map_err.
resolve_api_key_unwrapped(config, homedir, preserve) ==
    IF config.api_key.some /\ ~IsEmpty(Trim(config.api_key.v))
    THEN [ret |-> Ok(config.api_key.v), reads |-> <<>>]
    ELSE IF config.api_key_path.some
    THEN load_api_key_from_file(config.api_key_path.v, homedir, preserve)
    ELSE [ret |-> Err(ConfigError(
                    "Provider '{}' requires api_key or api_key_path for ApiKey auth",
                    [name |-> config.name])),
          reads |-> <<>>]

resolve_api_key(config, homedir, preserve) ==
    IF config.api_key.some /\ ~IsEmpty(Trim(config.api_key.v))
    THEN [ret |-> Ok(config.api_key.v), reads |-> <<>>]
    ELSE IF config.api_key_path.some
    THEN LET r == load_api_key_from_file(config.api_key_path.v, homedir, preserve)
         IN  IF r.ret.ok THEN r
             ELSE [ret |-> Err(ConfigError("Failed to read api_key from {}: {}",
                                 [path |-> config.api_key_path.v, cause |-> r.ret.e])),
                   reads |-> r.reads]
    ELSE [ret |-> Err(ConfigError(
                    "Provider '{}' requires api_key or api_key_path for ApiKey auth",
                    [name |-> config.name])),
          reads |-> <<>>]

----------------------------------------------------------------------------
(* ProviderConfig and the adapters.  An adapter is the record of the       *)
(* constructor that built it and of the arguments from_configs handed to   *)
(* that constructor; an argument the constructor does not take is absent   *)
(* from the record.  The Option<TokenStore> argument is passed on          *)
(* unchanged and is left out.  A String the code never looks into          *)
(* (a name, an OAuth reference) becomes the credential as a one-element    *)
(* sequence.                                                               *)

\* ProviderConfig::is_enabled: enabled defaults to true
is_enabled(config) == IF config.enabled.some THEN config.enabled.v ELSE TRUE

UnwrapOr(opt, default) == IF opt.some THEN opt.v ELSE default

\* The match arms that build with (name, api_key, models).
NamedPresets ==
    {"openrouter", "deepinfra", "novita", "baseten", "together", "github-copilot",
     "copilot", "fireworks", "groq", "nebius", "cerebras", "moonshot", "qwen",
     "gemini"}

\* The match arms that build with (api_key, models, token_store).
AnthropicPresets == {"z.ai", "minimax", "zenmux", "kimi-coding"}

\* The match arms that take config.base_url, with the default of each.
DefaultBaseUrl(provider_type) ==
    CASE provider_type = "openai" -> "https://api.openai.com/v1"
      [] provider_type = "anthropic" -> "https://api.anthropic.com"
      [] provider_type = "longcat" -> "https://api.longcat.ai/v1"
      [] provider_type = "ollama" -> "http://localhost:11434/v1"
      [] provider_type = "lmstudio" -> "http://localhost:1234/v1"

\* A plausible slip: the default is taken although the config sets base_url.
BaseUrlArg_default_only(config) == DefaultBaseUrl(config.provider_type)

\* config.base_url.clone().unwrap_or_else(|| default)
BaseUrlArg(config) == UnwrapOr(config.base_url, DefaultBaseUrl(config.provider_type))

\* A plausible slip: an unknown provider_type is skipped over with a generic adapter.
new_provider_lenient(config, api_key) ==
    Ok([ctor |-> "OpenAIProvider::new", name |-> config.name, api_key |-> api_key,
        base_url |-> UnwrapOr(config.base_url, "https://api.openai.com/v1"),
        models |-> config.models, oauth_provider |-> config.oauth_provider])

\* match config.provider_type.as_str() { ... }
new_provider(config, api_key) ==
    LET t == config.provider_type
    IN  CASE t = "openai" ->
                Ok([ctor |-> "OpenAIProvider::new", name |-> config.name,
                    api_key |-> api_key, base_url |-> BaseUrlArg(config),
                    models |-> config.models,
                    oauth_provider |-> config.oauth_provider])
          [] t = "anthropic" ->
                Ok([ctor |-> "AnthropicCompatibleProvider::new", name |-> config.name,
                    api_key |-> api_key, base_url |-> BaseUrlArg(config),
                    models |-> config.models,
                    oauth_provider |-> config.oauth_provider])
          [] t \in AnthropicPresets ->
                Ok([ctor |-> "AnthropicCompatibleProvider", preset |-> t,
                    api_key |-> api_key, models |-> config.models])
          [] t \in NamedPresets ->
                Ok([ctor |-> "OpenAIProvider",
                    preset |-> IF t = "copilot" THEN "github-copilot" ELSE t,
                    name |-> config.name, api_key |-> api_key,
                    models |-> config.models])
          [] t \in {"longcat", "ollama", "lmstudio"} ->
                Ok([ctor |-> "OpenAIProvider", preset |-> t, name |-> config.name,
                    api_key |-> api_key, base_url |-> BaseUrlArg(config),
                    models |-> config.models])
          [] OTHER -> Err(ConfigError("Unknown provider type: {}",
                                      [provider_type |-> t]))

\* let api_key = match &config.auth_type { ... }
credential(config, homedir, preserve) ==
    IF config.auth_type = "api_key"
    THEN resolve_api_key(config, homedir, preserve)
    ELSE [ret |-> Ok(<<UnwrapOr(config.oauth_provider, config.name)>>),
          reads |-> <<>>]

\* AnthropicProvider::supports_model: the adapter serves the models it was given.
supports_model(provider, model) ==
    \E i \in 1..Len(provider.models) : provider.models[i] = model

----------------------------------------------------------------------------
(* The registry's two maps are functions; HashMap::insert replaces the     *)
(* value of a key that is present.                                         *)

EmptyMap == [k \in {} |-> None]

\* A plausible slip: the first adapter registered under a name is kept.
MapPut_keep_first(map, k, v) ==
    [x \in DOMAIN map \cup {k} |-> IF x \in DOMAIN map THEN map[x] ELSE v]

MapPut(map, k, v) == [x \in DOMAIN map \cup {k} |-> IF x = k THEN v ELSE map[x]]

----------------------------------------------------------------------------
(* Inputs.  from_configs is run on every single-entry list over            *)
(* EntryConfigs (each field over its whole domain) and on every list of    *)
(* at most MaxConfigs entries over ListConfigs (the combinations that      *)
(* decide the loop: name, enabled, and how the entry ends).                *)

MaxConfigs == 2

Names == {"a", "b"}

ModelIds == {"gpt-4", "claude", "unknown-model"}

Homes == {None, Some(HomeDir)}

ApiKeyPaths ==
    {PlainPath, BlankPath, AuthJsonPath, NoKeyJsonPath, BadJsonPath, MissingPath,
     TildePath}

EntryConfigs ==
    [name : {"a"},
     provider_type : {"openai", "z.ai", "openrouter", "ollama", "bogus"},
     auth_type : {"api_key", "oauth"},
     api_key : {None, Some(<<" ">>), Some(<<"i", "k">>), Some(<<" ", "i", "k">>)},
     api_key_path : {None} \cup {Some(p) : p \in ApiKeyPaths},
     base_url : {None, Some("http://proxy")},
     models : {<<>>, <<"gpt-4">>},
     oauth_provider : {None, Some("op")},
     enabled : {None, Some(TRUE), Some(FALSE)}]

\* How an entry of a longer list ends: built from an inline key, built from an
\* OAuth placeholder, built from a blank file, no credential at all, an unreadable
\* file under an unknown type, an unknown type with a good key.
ListShapes ==
    {[provider_type |-> "openai", auth_type |-> "api_key",
      api_key |-> Some(<<"i", "k">>), api_key_path |-> Some(MissingPath),
      models |-> <<"gpt-4">>],
     [provider_type |-> "z.ai", auth_type |-> "oauth",
      api_key |-> None, api_key_path |-> None, models |-> <<>>],
     [provider_type |-> "openrouter", auth_type |-> "api_key",
      api_key |-> Some(<<" ">>), api_key_path |-> Some(BlankPath),
      models |-> <<"gpt-4">>],
     [provider_type |-> "openai", auth_type |-> "api_key",
      api_key |-> None, api_key_path |-> None, models |-> <<>>],
     [provider_type |-> "bogus", auth_type |-> "api_key",
      api_key |-> None, api_key_path |-> Some(MissingPath), models |-> <<>>],
     [provider_type |-> "bogus", auth_type |-> "api_key",
      api_key |-> Some(<<"i", "k">>), api_key_path |-> None, models |-> <<>>]}

ListConfigs ==
    {sh @@ [name |-> n, enabled |-> e, base_url |-> None, oauth_provider |-> None] :
        sh \in ListShapes, n \in Names, e \in {None, Some(FALSE)}}

SeqsUpTo(S, n) == UNION {[1..k -> S] : k \in 0..n}

ConfigLists ==
    SeqsUpTo(ListConfigs, MaxConfigs) \cup {<<c>> : c \in EntryConfigs}

NoCall == [op |-> "none"]

NoDocument == JScalar

----------------------------------------------------------------------------
(* from_configs: one action per way through the body of the for loop.      *)

Init ==
    /\ configs \in ConfigLists
    /\ home \in Homes
    /\ preserve_order \in BOOLEAN
    /\ pc = "build"
    /\ idx = 1
    /\ providers = EmptyMap              \* let mut registry = Self::new()
    /\ model_to_provider = EmptyMap
    /\ result = None
    /\ resolved = {}
    /\ constructed = {}
    /\ reads = <<>>
    /\ last = NoCall
    /\ doc = NoDocument

InLoop == pc = "build" /\ idx <= Len(configs)

FileReads(entry, paths) ==
    [k \in 1..Len(paths) |-> [entry |-> entry, path |-> paths[k]]]

\* A plausible slip: the credential is resolved before enabled is looked at.
SkipDisabled_after_credential ==
    /\ InLoop
    /\ ~is_enabled(configs[idx])
    /\ LET key == credential(configs[idx], home, preserve_order)
       IN  /\ reads' = reads \o FileReads(idx, key.reads)
           /\ IF key.ret.ok
              THEN idx' = idx + 1 /\ UNCHANGED <<pc, result>>
              ELSE /\ result' = Some(Err(key.ret.e))
                   /\ pc' = "failed"
                   /\ idx' = idx
    /\ resolved' = resolved \cup {idx}
    /\ UNCHANGED <<configs, home, preserve_order, providers, model_to_provider,
                   constructed, last, doc>>

\* if !config.is_enabled() { continue; }
SkipDisabled ==
    /\ InLoop
    /\ ~is_enabled(configs[idx])
    /\ idx' = idx + 1
    /\ UNCHANGED <<configs, home, preserve_order, pc, providers, model_to_provider,
                   result, resolved, constructed, reads, last, doc>>

\* A plausible slip: an entry whose credential fails is passed over.
CredentialFails_skips ==
    /\ InLoop
    /\ is_enabled(configs[idx])
    /\ LET key == credential(configs[idx], home, preserve_order)
       IN  /\ ~key.ret.ok
           /\ reads' = reads \o FileReads(idx, key.reads)
    /\ resolved' = resolved \cup {idx}
    /\ idx' = idx + 1
    /\ UNCHANGED <<configs, home, preserve_order, pc, providers, model_to_provider,
                   result, constructed, last, doc>>

\* resolve_api_key(config)? returns the error: the local registry is dropped
CredentialFails ==
    /\ InLoop
    /\ is_enabled(configs[idx])
    /\ LET key == credential(configs[idx], home, preserve_order)
       IN  /\ ~key.ret.ok
           /\ result' = Some(Err(key.ret.e))
           /\ reads' = reads \o FileReads(idx, key.reads)
    /\ resolved' = resolved \cup {idx}
    /\ pc' = "failed"
    /\ providers' = EmptyMap
    /\ model_to_provider' = EmptyMap
    /\ UNCHANGED <<configs, home, preserve_order, idx, constructed, last, doc>>

\* other => return Err(ConfigError("Unknown provider type: ..."))
UnknownProviderType ==
    /\ InLoop
    /\ is_enabled(configs[idx])
    /\ LET key == credential(configs[idx], home, preserve_order)
       IN  /\ key.ret.ok
           /\ LET provider == new_provider(configs[idx], key.ret.v)
              IN  /\ ~provider.ok
                  /\ result' = Some(Err(provider.e))
           /\ reads' = reads \o FileReads(idx, key.reads)
    /\ resolved' = resolved \cup {idx}
    /\ pc' = "failed"
    /\ providers' = EmptyMap
    /\ model_to_provider' = EmptyMap
    /\ UNCHANGED <<configs, home, preserve_order, idx, constructed, last, doc>>

\* registry.providers.insert(config.name.clone(), Arc::new(provider))
InsertProvider ==
    /\ InLoop
    /\ is_enabled(configs[idx])
    /\ LET key == credential(configs[idx], home, preserve_order)
       IN  /\ key.ret.ok
           /\ LET provider == new_provider(configs[idx], key.ret.v)
              IN  /\ provider.ok
                  /\ providers' = MapPut(providers, configs[idx].name, provider.v)
           /\ reads' = reads \o FileReads(idx, key.reads)
    /\ resolved' = resolved \cup {idx}
    /\ constructed' = constructed \cup {idx}
    /\ idx' = idx + 1
    /\ UNCHANGED <<configs, home, preserve_order, pc, model_to_provider, result,
                   last, doc>>

\* Ok(registry)
ReturnRegistry ==
    /\ pc = "build"
    /\ idx > Len(configs)
    /\ result' = Some(Ok("registry"))
    /\ pc' = "serving"
    /\ UNCHANGED <<configs, home, preserve_order, idx, providers, model_to_provider,
                   resolved, constructed, reads, last, doc>>

----------------------------------------------------------------------------
(* The lookups.  HashMap iterates in an order the code does not choose, so *)
(* the scan of get_provider_for_model may return any adapter that supports *)
(* the model: the operator gives every Result the call can return.         *)

get_provider(map, name) == IF name \in DOMAIN map THEN Some(map[name]) ELSE None

\* A plausible slip: the model index is not consulted, every lookup scans.
get_provider_for_model_scan_only(map, index, model) ==
    LET hits == {map[n] : n \in {x \in DOMAIN map : supports_model(map[x], model)}}
    IN  IF hits # {} THEN {Ok(p) : p \in hits} ELSE {Err(ModelNotSupported(model))}

get_provider_for_model(map, index, model) ==
    IF model \in DOMAIN index /\ index[model] \in DOMAIN map
    THEN {Ok(map[index[model]])}
    ELSE LET hits == {map[n] : n \in {x \in DOMAIN map : supports_model(map[x], model)}}
         IN  IF hits # {} THEN {Ok(p) : p \in hits}
             ELSE {Err(ModelNotSupported(model))}

list_models(index) == DOMAIN index

list_providers(map) == DOMAIN map

Serving == pc = "serving"

Lookup(call) ==
    /\ Serving
    /\ last' = call
    /\ UNCHANGED <<configs, home, preserve_order, pc, idx, providers,
                   model_to_provider, result, resolved, constructed, reads, doc>>

GetProvider ==
    \E name \in Names \cup {"ghost"} :
        Lookup([op |-> "get_provider", arg |-> name,
                ret |-> get_provider(providers, name)])

GetProviderForModel ==
    \E model \in ModelIds :
        \E r \in get_provider_for_model(providers, model_to_provider, model) :
            Lookup([op |-> "get_provider_for_model", arg |-> model, ret |-> r])

ListModels == Lookup([op |-> "list_models", ret |-> list_models(model_to_provider)])

ListProviders == Lookup([op |-> "list_providers", ret |-> list_providers(providers)])

Next ==
    \/ SkipDisabled
    \/ CredentialFails
    \/ UnknownProviderType
    \/ InsertProvider
    \/ ReturnRegistry
    \/ GetProvider
    \/ GetProviderForModel
    \/ ListModels
    \/ ListProviders

Spec == Init /\ [][Next]_vars

----------------------------------------------------------------------------
(* SpecLookup: the lookups on registry values with both maps populated.    *)
(* from_configs leaves model_to_provider empty; the lookups are written    *)
(* for any value of the two maps, stale index entries included.            *)

ModelLists == {<<>>, <<"gpt-4">>, <<"claude">>, <<"gpt-4", "claude">>}

ProviderMaps ==
    UNION {{[n \in D |-> [ctor |-> "OpenAIProvider::new", name |-> n,
                          api_key |-> <<"i", "k">>,
                          base_url |-> "https://api.openai.com/v1",
                          models |-> ms[n], oauth_provider |-> None]] :
               ms \in [D -> ModelLists]} : D \in SUBSET Names}

ModelIndexes ==
    UNION {[D -> Names \cup {"ghost"}] : D \in SUBSET {"gpt-4", "claude"}}

InitLookup ==
    /\ configs = <<>>
    /\ home = None
    /\ preserve_order = FALSE
    /\ pc = "serving"
    /\ idx = 1
    /\ providers \in ProviderMaps
    /\ model_to_provider \in ModelIndexes
    /\ result = Some(Ok("registry"))
    /\ resolved = {}
    /\ constructed = {}
    /\ reads = <<>>
    /\ last = NoCall
    /\ doc = NoDocument

NextLookup ==
    \/ GetProvider
    \/ GetProviderForModel
    \/ ListModels
    \/ ListProviders

SpecLookup == InitLookup /\ [][NextLookup]_vars

----------------------------------------------------------------------------
(* SpecJson: the JSON search on documents of at most MaxMembers members    *)
(* per node at the top, keys distinct within an object, over DocValues.    *)

MaxMembers == 2

DocKeys == {"api_key", "token", "b", "a"}

DocLeaves ==
    {JString(<<" ">>), JString(<<"x">>), JString(<<"y", " ">>), JScalar}

DocNested ==
    {JObject(<<>>),
     JObject(<<Member("token", JString(<<"n">>))>>),
     JObject(<<Member("key", JString(<<" ">>))>>),
     JArray(<<JScalar, JObject(<<Member("access_token", JString(<<"m">>))>>)>>),
     JArray(<<JString(<<"x">>)>>),
     JObject(<<Member("inner",
                      JObject(<<Member("access_token", JString(<<"a", "b", "c">>))>>))>>)}

DocValues == DocLeaves \cup DocNested

DistinctKeys(members) ==
    \A i, j \in 1..Len(members) : members[i].key = members[j].key => i = j

Documents ==
    {JObject(ms) : ms \in {m \in SeqsUpTo([key : DocKeys, value : DocValues], MaxMembers) :
                              DistinctKeys(m)}}
    \cup {JArray(items) : items \in SeqsUpTo(DocValues, MaxMembers)}
    \cup DocLeaves

InitJson ==
    /\ configs = <<>>
    /\ home = None
    /\ preserve_order \in BOOLEAN
    /\ pc = "json"
    /\ idx = 1
    /\ providers = EmptyMap
    /\ model_to_provider = EmptyMap
    /\ result = None
    /\ resolved = {}
    /\ constructed = {}
    /\ reads = <<>>
    /\ last = NoCall
    /\ doc \in Documents

\* extract_api_key_from_json(&value) on the parsed document
ExtractApiKey ==
    /\ pc = "json"
    /\ last' = [op |-> "extract_api_key_from_json",
                ret |-> extract_api_key_from_json(ParseJson(doc, preserve_order))]
    /\ UNCHANGED <<configs, home, preserve_order, pc, idx, providers,
                   model_to_provider, result, resolved, constructed, reads, doc>>

\* load_api_key_from_file on the file that holds the document (an object: the
\* text of any other document does not start with a brace)
LoadDocumentFile ==
    /\ pc = "json"
    /\ doc.t = "object"
    /\ LET r == load_api_key_from_file(DocJsonPath, home, preserve_order)
       IN  /\ last' = [op |-> "load_api_key_from_file", ret |-> r.ret]
           /\ reads' = FileReads(0, r.reads)
    /\ UNCHANGED <<configs, home, preserve_order, pc, idx, providers,
                   model_to_provider, result, resolved, constructed, doc>>

NextJson ==
    \/ ExtractApiKey
    \/ LoadDocumentFile

SpecJson == InitJson /\ [][NextJson]_vars

----------------------------------------------------------------------------
(* What the properties below speak of, read off the config list itself.    *)

\* The provider_type values from_configs has a match arm for.
KnownProviderTypes ==
    {"openai", "anthropic", "z.ai", "minimax", "zenmux", "kimi-coding",
     "openrouter", "deepinfra", "novita", "baseten", "together", "github-copilot",
     "copilot", "fireworks", "groq", "nebius", "cerebras", "moonshot", "qwen",
     "gemini", "longcat", "ollama", "lmstudio"}

Entries == 1..Len(configs)

Enabled(i) == configs[i].enabled # Some(FALSE)

EnabledNames == {configs[i].name : i \in {j \in Entries : Enabled(j)}}

CredentialOf(i) == credential(configs[i], home, preserve_order).ret

UnknownTypeError(t) ==
    [kind |-> "ConfigError", fmt |-> "Unknown provider type: {}", provider_type |-> t]

\* An enabled entry fails when its credential does not resolve or its type is unknown.
Failing ==
    {i \in Entries :
        Enabled(i) /\ (~CredentialOf(i).ok
                       \/ configs[i].provider_type \notin KnownProviderTypes)}

FirstFailing == CHOOSE i \in Failing : \A j \in Failing : i <= j

ErrorOf(i) ==
    IF ~CredentialOf(i).ok THEN CredentialOf(i).e
    ELSE UnknownTypeError(configs[i].provider_type)

Finished == pc \in {"serving", "failed"}

Succeeded == result = Some(Ok("registry"))

Failed == result.some /\ ~result.v.ok

----------------------------------------------------------------------------
(* C1: from_configs is all-or-nothing and fail-fast in list order: it      *)
(* returns Ok exactly when no enabled entry fails; otherwise it returns    *)
(* the error of the first failing enabled entry, the registry built so far *)
(* is dropped, and no entry after the failing one has its credential       *)
(* resolved, a file read or its adapter constructed.                       *)
FailFastInListOrder ==
    /\ pc = "build" => result = None
    /\ Succeeded => Failing = {}
    /\ Finished /\ Failing = {} => Succeeded /\ pc = "serving"
    /\ Finished /\ Failing # {} =>
          /\ result = Some(Err(ErrorOf(FirstFailing)))
          /\ pc = "failed"
          /\ providers = EmptyMap /\ model_to_provider = EmptyMap
          /\ resolved \subseteq 1..FirstFailing
          /\ constructed \subseteq 1..(FirstFailing - 1)
          /\ \A k \in 1..Len(reads) : reads[k].entry <= FirstFailing

\* The first of two enabled entries failed; the second was never touched.
FailFastWitness ==
    /\ pc = "failed"
    /\ Len(configs) = 2
    /\ FirstFailing = 1
    /\ Enabled(2)
    /\ 2 \notin resolved

----------------------------------------------------------------------------
(* C2, as amended: an entry with enabled = false is skipped before         *)
(* credential resolution and type dispatch (its credential is never        *)
(* resolved, no file of its is read, no adapter is built from it), the     *)
(* entry on which from_configs fails is always an enabled one, and after a *)
(* successful build list_providers() is exactly the set of names of the    *)
(* enabled entries: a disabled entry's name is listed only when an enabled *)
(* entry carries the same name.                                            *)
DisabledEntriesContributeNothing ==
    /\ \A i \in Entries :
          ~Enabled(i) =>
              /\ i \notin resolved
              /\ i \notin constructed
              /\ \A k \in 1..Len(reads) : reads[k].entry # i
    /\ pc = "failed" => idx \in Entries /\ Enabled(idx)
    /\ pc = "serving" => list_providers(providers) = EnabledNames
    /\ last.op = "list_providers" => last.ret = EnabledNames

\* A build succeeded over a disabled entry that would have failed, and
\* list_providers() does not name it.
DisabledWitness ==
    /\ last.op = "list_providers"
    /\ \E i \in Entries :
          /\ ~Enabled(i)
          /\ ~CredentialOf(i).ok
          /\ configs[i].provider_type \notin KnownProviderTypes
          /\ configs[i].name \notin last.ret

\* C2 as stated: after a successful build no disabled entry's name is listed.
DisabledNameNeverListed ==
    pc = "serving" =>
        \A i \in Entries : ~Enabled(i) => configs[i].name \notin list_providers(providers)

----------------------------------------------------------------------------
(* C3, as amended: an unknown provider_type on an ENABLED entry makes      *)
(* from_configs fail with a ConfigError and no registry (the providers     *)
(* built before it are dropped with it); the error names the unknown value *)
(* when that entry is the first to fail and its credential resolves        *)
(* (credentials are resolved before the type is looked at, and an earlier  *)
(* failure is reported instead).  On a disabled entry an unknown           *)
(* provider_type is never looked at.                                       *)
UnknownTypeOnEnabledEntryAborts ==
    \A i \in Entries :
        configs[i].provider_type \notin KnownProviderTypes =>
            /\ Enabled(i) /\ Finished =>
                  /\ Failed
                  /\ result.v.e.kind = "ConfigError"
                  /\ providers = EmptyMap
            /\ Enabled(i) /\ Finished /\ FirstFailing = i /\ CredentialOf(i).ok =>
                  result = Some(Err(UnknownTypeError(configs[i].provider_type)))
            /\ ~Enabled(i) => i \notin constructed /\ (pc = "failed" => idx # i)

\* The second entry has an unknown type; the first one's adapter was built and
\* is gone with the registry.
UnknownTypeWitness ==
    /\ pc = "failed"
    /\ idx = 2
    /\ constructed = {1}
    /\ result = Some(Err(UnknownTypeError("bogus")))
    /\ providers = EmptyMap

\* C3 as stated: an unknown provider_type anywhere in the list aborts the build
\* with a ConfigError that names it.
UnknownTypeAnywhereAborts ==
    Finished /\ (\E i \in Entries : configs[i].provider_type \notin KnownProviderTypes) =>
        /\ Failed
        /\ \E i \in Entries :
              /\ configs[i].provider_type \notin KnownProviderTypes
              /\ result.v.e = UnknownTypeError(configs[i].provider_type)

----------------------------------------------------------------------------
Mapped(m) == m \in DOMAIN model_to_provider /\ model_to_provider[m] \in DOMAIN providers

Supporters(m) == {n \in DOMAIN providers : supports_model(providers[n], m)}

(* C4: get_provider_for_model(m) is two-phase for every registry value and *)
(* every model id m: when the model index maps m to a name of the provider *)
(* map, that adapter is returned, whether or not it supports m; otherwise  *)
(* an adapter that supports m is returned when there is one; the call      *)
(* fails, with ModelNotSupported(m), exactly when neither phase yields an  *)
(* adapter, and so always on an empty registry.                            *)
TwoPhaseLookup ==
    last.op = "get_provider_for_model" =>
        LET m == last.arg
            r == last.ret
        IN  /\ Mapped(m) => r = Ok(providers[model_to_provider[m]])
            /\ ~Mapped(m) /\ Supporters(m) # {} =>
                  r.ok /\ \E n \in Supporters(m) : r.v = providers[n]
            /\ ~r.ok <=> (~Mapped(m) /\ Supporters(m) = {})
            /\ ~r.ok => r.e = [kind |-> "ModelNotSupported", model |-> m]
            /\ DOMAIN providers = {} => ~r.ok

\* The index sends the model to an adapter that does not support it while
\* another adapter does: the indexed one is returned.
TwoPhaseWitness ==
    /\ last.op = "get_provider_for_model"
    /\ Mapped(last.arg)
    /\ model_to_provider[last.arg] \notin Supporters(last.arg)
    /\ Supporters(last.arg) # {}
    /\ last.ret = Ok(providers[model_to_provider[last.arg]])

----------------------------------------------------------------------------
EnabledNamed(n) == {i \in Entries : Enabled(i) /\ configs[i].name = n}

LastEnabledNamed(n) == CHOOSE i \in EnabledNamed(n) : \A j \in EnabledNamed(n) : j <= i

AdapterOf(i) == new_provider(configs[i], CredentialOf(i).v).v

(* C5, as amended: after a successful from_configs the provider map holds  *)
(* one entry per NAME of an enabled entry: list_providers() has as many    *)
(* names as the enabled entries have distinct names, and get_provider(n)   *)
(* returns the adapter constructed from the LAST enabled entry named n     *)
(* (HashMap::insert replaces the adapter of an earlier entry of that       *)
(* name); a name no enabled entry carries yields None.  When the enabled   *)
(* entries have pairwise distinct names this is one adapter per enabled    *)
(* entry, each constructed from its own entry.                             *)
OneAdapterPerEnabledName ==
    /\ pc = "serving" =>
          /\ Cardinality(list_providers(providers)) = Cardinality(EnabledNames)
          /\ \A n \in EnabledNames :
                get_provider(providers, n) = Some(AdapterOf(LastEnabledNamed(n)))
          /\ \A n \in (Names \cup {"ghost"}) \ EnabledNames :
                get_provider(providers, n) = None
    /\ last.op = "get_provider" /\ last.arg \in EnabledNames =>
          last.ret = Some(AdapterOf(LastEnabledNamed(last.arg)))

\* Two enabled entries share a name and differ; get_provider returned the
\* adapter of the second.
OneAdapterWitness ==
    /\ last.op = "get_provider"
    /\ Len(configs) = 2
    /\ Enabled(1) /\ Enabled(2)
    /\ configs[1].name = configs[2].name
    /\ last.arg = configs[2].name
    /\ AdapterOf(1) # AdapterOf(2)
    /\ last.ret = Some(AdapterOf(2))

\* C5 as stated: as many names as enabled entries, and every enabled entry's own
\* adapter under its name.
OneAdapterPerEnabledEntry ==
    pc = "serving" =>
        /\ Cardinality(list_providers(providers))
              = Cardinality({i \in Entries : Enabled(i)})
        /\ \A i \in Entries :
              Enabled(i) => get_provider(providers, configs[i].name) = Some(AdapterOf(i))

----------------------------------------------------------------------------
(* C6: for every enabled entry with auth_type = api_key, from_configs      *)
(* never succeeds with an adapter constructed from an empty secret.        *)
NoAdapterFromEmptySecret ==
    /\ \A i \in constructed :
          configs[i].auth_type = "api_key" => ~IsEmpty(CredentialOf(i).v)
    /\ pc = "serving" =>
          \A n \in DOMAIN providers : ~IsEmpty(providers[n].api_key)

----------------------------------------------------------------------------
BothSet(i) ==
    /\ configs[i].auth_type = "api_key"
    /\ configs[i].api_key.some
    /\ configs[i].api_key_path.some

InlineUsable(i) == ~IsEmpty(Trim(configs[i].api_key.v))

FileOf(i) == load_api_key_from_file(configs[i].api_key_path.v, home, preserve_order).ret

FileUsable(i) == FileOf(i).ok /\ ~IsEmpty(FileOf(i).v)

ReadsOf(i) == {k \in 1..Len(reads) : reads[k].entry = i}

FailedOn(i) == pc = "failed" /\ idx = i

InlineWins(i) ==
    /\ InlineUsable(i) =>
          /\ ReadsOf(i) = {}
          /\ CredentialOf(i) = Ok(configs[i].api_key.v)
          /\ FailedOn(i) => result.v.e.fmt = "Unknown provider type: {}"
          /\ pc = "serving" /\ i = LastEnabledNamed(configs[i].name) =>
                providers[configs[i].name].api_key = configs[i].api_key.v
    /\ ReadsOf(i) # {} => ~InlineUsable(i)

(* C7: for every api_key entry with both api_key and api_key_path set: a   *)
(* non-blank inline api_key is the resolved secret and the file is never   *)
(* read; the file is read only when the inline value is blank; and when    *)
(* neither is usable (the inline value is blank and the file yields no     *)
(* non-empty secret) resolution fails with a ConfigError.                  *)
InlineThenFileElseError ==
    \A i \in resolved :
        BothSet(i) =>
            /\ InlineWins(i)
            /\ ~InlineUsable(i) /\ ~FileUsable(i) =>
                  FailedOn(i) /\ result.v.e.kind = "ConfigError"

\* The part of C7 the code keeps: the inline key wins and the file is read only
\* when the inline value is blank; a file that yields an error fails the build.
InlineKeyPrecedence ==
    \A i \in resolved :
        BothSet(i) =>
            /\ InlineWins(i)
            /\ ~InlineUsable(i) /\ ~FileOf(i).ok =>
                  FailedOn(i) /\ result.v.e.kind = "ConfigError"

----------------------------------------------------------------------------
BaseUrlTypes == {"openai", "anthropic", "longcat", "ollama", "lmstudio"}

\* The entries whose adapter the registry holds after a successful build.
Registered ==
    {i \in Entries : pc = "serving" /\ Enabled(i) /\ i = LastEnabledNamed(configs[i].name)}

(* C9, as amended: for an enabled entry whose provider_type is openai,     *)
(* anthropic, longcat, ollama or lmstudio the adapter is constructed with  *)
(* the entry's base_url when it is set and with the family's default only  *)
(* when it is omitted; for every other known provider_type (the presets)   *)
(* the constructor is not handed a base URL at all, so an explicit         *)
(* base_url has no effect there.                                           *)
ExplicitBaseUrlWhereTaken ==
    \A i \in Registered :
        LET c == configs[i]
            adapter == providers[c.name]
        IN  /\ c.provider_type \in BaseUrlTypes /\ c.base_url.some =>
                  adapter.base_url = c.base_url.v
            /\ c.provider_type \in BaseUrlTypes /\ ~c.base_url.some =>
                  adapter.base_url = DefaultBaseUrl(c.provider_type)
            /\ c.provider_type \notin BaseUrlTypes =>
                  "base_url" \notin DOMAIN adapter

\* An ollama entry with an explicit base_url was built with it.
ExplicitBaseUrlWitness ==
    \E i \in Registered :
        /\ configs[i].provider_type = "ollama"
        /\ configs[i].base_url = Some("http://proxy")
        /\ providers[configs[i].name].base_url = "http://proxy"

\* C9 as stated: whenever base_url is set, the adapter of every known
\* provider_type is constructed with it.
ExplicitBaseUrlAlwaysTaken ==
    \A i \in Registered :
        configs[i].base_url.some =>
            /\ "base_url" \in DOMAIN providers[configs[i].name]
            /\ providers[configs[i].name].base_url = configs[i].base_url.v

----------------------------------------------------------------------------
HasField(r, f) == f \in DOMAIN r

\* What the file at the configured path must make of itself.
ExpectedFileError(path) ==
    CASE path = MissingPath ->
            [kind |-> "ConfigError", fmt |-> "Failed to read {}: {}",
             path |-> MissingPath, cause |-> [kind |-> "io::Error"]]
      [] path = BadJsonPath ->
            [kind |-> "ConfigError", fmt |-> "Failed to parse JSON from {}: {}",
             path |-> BadJsonPath, cause |-> [kind |-> "serde_json::Error"]]
      [] path = NoKeyJsonPath ->
            [kind |-> "ConfigError",
             fmt |-> "No api_key/access_token/token field found in {}",
             path |-> NoKeyJsonPath]
      [] path = TildePath ->
            [kind |-> "ConfigError", fmt |-> "Invalid api_key_path: {}",
             path |-> TildePath]

(* C10, as amended: every failure that aborts from_configs is a            *)
(* ConfigError whose message carries the cause, and what it names depends  *)
(* on the failure: the backend's name only when neither api_key nor        *)
(* api_key_path is supplied; the api_key_path as configured, wrapped       *)
(* around the file error (invalid path, unreadable file with the I/O       *)
(* error, malformed JSON with the parser's error, no token field found,    *)
(* each naming the expanded path), for a credential file failure; and the  *)
(* provider_type value for an unknown provider type.  The last two do not  *)
(* carry the backend's name.                                               *)
ErrorsNameTheirCause ==
    Failed =>
        LET e == result.v.e
            c == configs[idx]
            inline == c.api_key.some /\ ~IsBlank(c.api_key.v)
        IN  /\ e.kind = "ConfigError"
            /\ c.auth_type = "api_key" /\ ~inline /\ ~c.api_key_path.some =>
                  e = [kind |-> "ConfigError",
                       fmt |-> "Provider '{}' requires api_key or api_key_path for ApiKey auth",
                       name |-> c.name]
            /\ c.auth_type = "api_key" /\ ~inline /\ c.api_key_path.some
                  /\ e.fmt # "Unknown provider type: {}" =>
                  /\ e = [kind |-> "ConfigError",
                          fmt |-> "Failed to read api_key from {}: {}",
                          path |-> c.api_key_path.v,
                          cause |-> ExpectedFileError(c.api_key_path.v)]
                  /\ ~HasField(e, "name") /\ ~HasField(e.cause, "name")
            /\ c.auth_type = "oauth" \/ inline =>
                  e = UnknownTypeError(c.provider_type)
            /\ e.fmt = "Unknown provider type: {}" =>
                  e = UnknownTypeError(c.provider_type) /\ ~HasField(e, "name")

\* A malformed credential file aborted the build: the error names the path.
ErrorsWitness ==
    /\ Failed
    /\ result.v.e.fmt = "Failed to read api_key from {}: {}"
    /\ result.v.e.path = BadJsonPath
    /\ result.v.e.cause.fmt = "Failed to parse JSON from {}: {}"

\* Whether the message of e has the backend's name formatted into it.
NamesBackend(e, name) ==
    \/ HasField(e, "name") /\ e.name = name
    \/ HasField(e, "cause") /\ HasField(e.cause, "name") /\ e.cause.name = name

\* C10 as stated: every failure is a ConfigError that carries the name of the
\* offending backend entry.
ErrorsNameTheBackend ==
    Failed =>
        /\ result.v.e.kind = "ConfigError"
        /\ NamesBackend(result.v.e, configs[idx].name)

----------------------------------------------------------------------------

\* The value of key k in the members of a document object.
DocValueAt(members, k) ==
    (CHOOSE m \in {members[i] : i \in 1..Len(members)} : m.key = k).value

\* The positions in TOKEN_KEYS whose key holds a non-blank string at this node.
OwnMatches(members) ==
    {k \in 1..Len(TOKEN_KEYS) :
        /\ \E i \in 1..Len(members) : members[i].key = TOKEN_KEYS[k]
        /\ DocValueAt(members, TOKEN_KEYS[k]).t = "string"
        /\ \E j \in 1..Len(DocValueAt(members, TOKEN_KEYS[k]).s) :
              DocValueAt(members, TOKEN_KEYS[k]).s[j] \notin {" ", "\n", "\t"}}

FirstOwnMatch(members) ==
    TOKEN_KEYS[CHOOSE k \in OwnMatches(members) : \A j \in OwnMatches(members) : k <= j]

KeysOf(members) == [i \in 1..Len(members) |-> members[i].key]

Ascending(keys) ==
    \A i, j \in 1..Len(keys) : i < j => KeyRank(keys[i]) < KeyRank(keys[j])

Extracted(d) == extract_api_key_from_json(ParseJson(d, preserve_order))

(* C8, as amended: extract_api_key_from_json is a pre-order,               *)
(* first-match-wins search: at an object node the keys api_key, token,     *)
(* access_token, key, oauth_token, bearer_token are tried in that order    *)
(* and the first whose value is a non-blank string is returned, trimmed,   *)
(* whatever the node's descendants hold; only when no key matches at the   *)
(* node are its values searched, in the ITERATION ORDER OF THE PARSED MAP  *)
(* (document order when serde_json preserves insertion order, ascending    *)
(* key order otherwise), and the items of an array in document order;      *)
(* scalars and blank strings never match; and a document file with no      *)
(* match yields the "no token field found" error naming its path.          *)
PreOrderFirstMatch ==
    /\ last.op = "extract_api_key_from_json" =>
          LET r == last.ret
              parsed == ParseJson(doc, preserve_order)
          IN  CASE doc.t = "object" ->
                    /\ OwnMatches(doc.members) # {} =>
                          r = Some(Trim(DocValueAt(doc.members,
                                                   FirstOwnMatch(doc.members)).s))
                    /\ OwnMatches(doc.members) = {} =>
                          r = FirstSome([i \in 1..Len(parsed.members) |->
                                  extract_api_key_from_json(parsed.members[i].value)])
                    /\ IF preserve_order
                       THEN KeysOf(parsed.members) = KeysOf(doc.members)
                       ELSE Ascending(KeysOf(parsed.members))
                    /\ {parsed.members[i].key : i \in 1..Len(parsed.members)}
                          = {doc.members[i].key : i \in 1..Len(doc.members)}
                [] doc.t = "array" ->
                    r = FirstSome([i \in 1..Len(doc.items) |-> Extracted(doc.items[i])])
                [] OTHER -> r = None
    /\ last.op = "load_api_key_from_file" =>
          IF Extracted(doc).some
          THEN last.ret = Ok(Extracted(doc).v)
          ELSE last.ret = Err([kind |-> "ConfigError",
                               fmt |-> "No api_key/access_token/token field found in {}",
                               path |-> DocJsonPath])

\* {"b": {"token": "n"}, "token": "y "}: the node's own token wins over the
\* match below it, and comes back trimmed.
PreOrderWitness ==
    /\ last.op = "extract_api_key_from_json"
    /\ doc = JObject(<<Member("b", JObject(<<Member("token", JString(<<"n">>))>>)),
                       Member("token", JString(<<"y", " ">>))>>)
    /\ last.ret = Some(<<"y">>)

\* The search C8 describes, on the document in document order.
RECURSIVE DocumentOrderSearch(_)
DocumentOrderSearch(d) ==
    CASE d.t = "object" ->
            IF OwnMatches(d.members) # {}
            THEN Some(Trim(DocValueAt(d.members, FirstOwnMatch(d.members)).s))
            ELSE FirstSome([i \in 1..Len(d.members) |->
                               DocumentOrderSearch(d.members[i].value)])
      [] d.t = "array" ->
            FirstSome([i \in 1..Len(d.items) |-> DocumentOrderSearch(d.items[i])])
      [] OTHER -> None

\* C8 as stated: the children of a node are searched in document order.
ChildrenInDocumentOrder ==
    last.op = "extract_api_key_from_json" => last.ret = DocumentOrderSearch(doc)

============================================================================
